---- MODULE Spec2Model ----
(***************************************************************************)
(* Model of the go-wechat SDK core: the cancelable dispatcher (http.go),   *)
(* the canonical parameter encoder and MD5 signer (GenParamStr, HashMd5,   *)
(* wxService.sign), the nonce generator (RandStringBytesMaskImprSrc),      *)
(* wxService.DoReq, and the operations built on them (req_wxmch.go,        *)
(* req_wxmini.go).                                                         *)
(***************************************************************************)
EXTENDS Integers, Sequences, FiniteSets, TLC

VARIABLES
    \* ---- one dispatch through ctxHttp.Do / ctxHttp.do ----
    callerPc,       \* the caller of Do: "idle", "blocked" (at <-c), "returned"
    gPc,            \* the goroutine started by do: "none", "select", "netcall", "handler", "send", "exited"
    ctxErr,         \* ctx.Err(): NoErr until the context fires; ctx.Done() is closed iff ctxErr # NoErr
    f,              \* the HandlerFunc passed to Do
    reqBody,        \* the body passed to Do
    netOut,         \* what h.client.Do(req) returned: <<response, err>>, or <<>> before it returns
    fArgs,          \* the argument pairs f has been invoked with in this dispatch, in order
    fRet,           \* what f returned
    sendVal,        \* the operand of the goroutine's c <- ...
    result,         \* what Do returned to its caller
    gBranch,        \* the select branch the goroutine took
    panicLog,       \* TRUE once the deferred recover() has logged a panic
    firedInFlight,  \* history: the context fired while h.client.Do was running
    firedInHandler, \* history: the context fired while f was running
    wire,           \* history: the bodies h.client.Do was given, over all dispatches
    dispatches,     \* number of calls of Do so far
    \* ---- GenParamStr ----
    params,         \* the map[string]string handed to GenParamStr
    encOut,         \* what GenParamStr returned
    \* ---- wxService / wxPay / wxMch ----
    key,            \* wxService.key, the shared secret
    obj,            \* the request object the caller holds and passes by pointer
    signOut,        \* the last call of wxService.sign: its argument and results
    verifyLog,      \* history: entry object, result and exit object of each VerifySign
    calls,          \* number of steps (sign, VerifySign, writes of obj.Sign) so far
    opPc,           \* the request operation in progress, or "idle"
    opEntry,        \* the request object as it was when the operation was entered
    opRet,          \* the last request operation that returned, with its results
    \* ---- RandStringBytesMaskImprSrc, per calling task ----
    rPc,            \* "idle", "Int63" (inside src.Int63), "loop", "returned", "panicked"
    rN,             \* the argument n
    rI,             \* the loop variable i, the next position of b to fill
    rCache,         \* cache, as its base-64 digits, least significant first
    rRemain,        \* remain, the indices left in cache
    rB,             \* b: the positions filled so far, b[i+1..n-1] in order
    rDraws,         \* history: the number of values drawn from src
    rTaken,         \* history: the indices taken from the current draw
    \* ---- wxMini and direct callers of wxService.DoReq ----
    token,          \* wxMini.token
    doReqArgs       \* the url, contentType and req of the last call of wxService.DoReq

dvars == <<callerPc, gPc, ctxErr, f, reqBody, netOut, fArgs, fRet, sendVal,
           result, gBranch, panicLog, firedInFlight, firedInHandler, wire,
           dispatches>>
evars == <<params, encOut>>
svars == <<key, obj, signOut, verifyLog, calls>>
ovars == <<opPc, opEntry, opRet>>
rvars == <<rPc, rN, rI, rCache, rRemain, rB, rDraws, rTaken>>
mvars == <<token, doReqArgs>>

vars == <<dvars, evars, svars, ovars, rvars, mvars>>

-----------------------------------------------------------------------------
(* Bounds of the model *)

MaxDispatches == 2      \* calls of Do in one behaviour
MaxParams == 2          \* keys in a map handed to GenParamStr
MaxCalls == 3           \* steps of the caller of sign / VerifySign in one behaviour
MaxLen == 11            \* the argument n of RandStringBytesMaskImprSrc
MaxDraws == 3           \* values drawn from src in one call of RandStringBytesMaskImprSrc

-----------------------------------------------------------------------------
(* Error values *)

NoErr == "nil"
None == "none"
ErrCanceled == "context canceled"
ErrDeadline == "context deadline exceeded"
ErrNewRequest == "net/http: invalid method"
ErrTransport == "dial tcp: connection refused"
ErrDecode == "xml: syntax error"
Response == "response"
NoResponse == "nil response"

\* client.Do with a request bound to ctx reports a fired context as a
\* *url.Error wrapping ctx.Err(), never as ctx.Err() itself
UrlError(e) == "url.Error: " \o e

CtxErrs == {ErrCanceled, ErrDeadline}

AmpKeyEq == <<38, 107, 101, 121, 61>>  \* "&key="

-----------------------------------------------------------------------------
(* Strings are sequences of ASCII codes, so that escaping, sorting and     *)
(* hashing act on the bytes as the library routines do.                    *)

EmptyStr == <<>>

RECURSIVE StrLess(_, _)
\* the order of sort.Strings: byte-wise lexicographic
StrLess(a, b) ==
    IF b = <<>> THEN FALSE
    ELSE IF a = <<>> THEN TRUE
    ELSE IF a[1] # b[1] THEN a[1] < b[1]
    ELSE StrLess(Tail(a), Tail(b))

RECURSIVE SortStrings(_)
SortStrings(S) ==
    IF S = {} THEN <<>>
    ELSE LET m == CHOOSE x \in S : \A y \in S \ {x} : StrLess(x, y)
         IN  <<m>> \o SortStrings(S \ {m})

IsDigit(c) == c >= 48 /\ c <= 57
IsAlpha(c) == (c >= 65 /\ c <= 90) \/ (c >= 97 /\ c <= 122)

\* url.shouldEscape(c, encodeQueryComponent): everything but the
\* unreserved characters  A-Z a-z 0-9 - _ . ~
ShouldEscape(c) == ~(IsDigit(c) \/ IsAlpha(c) \/ c \in {45, 95, 46, 126})

HexUpper(n) == IF n < 10 THEN 48 + n ELSE 55 + n

RECURSIVE Flatten(_, _, _)
\* the concatenation ss[lo] \o ... \o ss[hi] of a sequence of strings
Flatten(ss, lo, hi) ==
    IF lo > hi THEN <<>>
    ELSE IF lo = hi THEN ss[lo]
    ELSE Flatten(ss, lo, (lo + hi) \div 2) \o Flatten(ss, ((lo + hi) \div 2) + 1, hi)

\* what url.escape writes for one byte: ' ' -> '+', escaped bytes -> %XX
\* (upper-case hex), the rest unchanged
QueryEscapeByte(c) ==
    IF c = 32 THEN <<43>>
    ELSE IF ShouldEscape(c) THEN <<37, HexUpper(c \div 16), HexUpper(c % 16)>>
    ELSE <<c>>

\* url.QueryEscape
QueryEscape(s) == Flatten([i \in 1..Len(s) |-> QueryEscapeByte(s[i])], 1, Len(s))

IsHex(c) == IsDigit(c) \/ (c >= 97 /\ c <= 102) \/ (c >= 65 /\ c <= 70)

UnHex(c) ==
    IF IsDigit(c) THEN c - 48
    ELSE IF c >= 97 /\ c <= 102 THEN c - 97 + 10
    ELSE c - 65 + 10

\* first pass of url.unescape: every '%' is followed by two hex digits
\* (the scan skips only the two hex digits after a '%', so it meets every '%')
WellEscaped(s) ==
    \A i \in 1..Len(s) :
        s[i] = 37 => (i + 2 <= Len(s) /\ IsHex(s[i + 1]) /\ IsHex(s[i + 2]))

\* second pass of url.unescape, by position: a '%' yields the byte its two
\* hex digits denote, those two digits yield nothing, '+' yields ' '
UnescapeAt(s, i) ==
    IF s[i] = 37 THEN <<16 * UnHex(s[i + 1]) + UnHex(s[i + 2])>>
    ELSE IF (i > 1 /\ s[i - 1] = 37) \/ (i > 2 /\ s[i - 2] = 37) THEN <<>>
    ELSE IF s[i] = 43 THEN <<32>>
    ELSE <<s[i]>>

UnescapeBytes(s) == Flatten([i \in 1..Len(s) |-> UnescapeAt(s, i)], 1, Len(s))

ErrEscape == "invalid URL escape"

\* url.QueryUnescape
QueryUnescape(s) ==
    IF WellEscaped(s)
    THEN [str |-> UnescapeBytes(s), err |-> NoErr]
    ELSE [str |-> EmptyStr, err |-> ErrEscape]

RECURSIVE EncodeValuesOf(_, _, _)
\* inner loop of Values.Encode over the values of one key
EncodeValuesOf(buf, keyEscaped, vs) ==
    IF vs = <<>> THEN buf
    ELSE EncodeValuesOf((IF Len(buf) > 0 THEN buf \o <<38>> ELSE buf)
                            \o keyEscaped \o <<61>> \o QueryEscape(Head(vs)),
                        keyEscaped, Tail(vs))

RECURSIVE EncodeKeys(_, _, _)
\* outer loop of Values.Encode over the sorted keys
EncodeKeys(buf, v, keys) ==
    IF keys = <<>> THEN buf
    ELSE EncodeKeys(EncodeValuesOf(buf, QueryEscape(Head(keys)), v[Head(keys)]),
                    v, Tail(keys))

\* an Encode that writes the keys in the order range yielded them
ValuesEncodeUnsorted(v, keys) ==
    EncodeKeys(<<>>, v, keys)

\* url.Values.Encode: keys holds the keys of v in the order range yields
\* them; they are sorted with sort.Strings and written as k=v joined by '&'
ValuesEncode(v, keys) ==
    EncodeKeys(<<>>, v, SortStrings({keys[i] : i \in 1..Len(keys)}))

\* for k := range params { if value != "" { v.Set(k, value) } }: url.Values
\* is map[string][]string and Set stores the one-element list, so after
\* the loop v holds <<value>> under every key visited with a non-empty value
CollectParams(ps, order) ==
    [k \in {order[i] : i \in 1..Len(order)} \cap {x \in DOMAIN ps : ps[x] # EmptyStr} |->
        <<ps[k]>>]

\* GenParamStr(params); order is the order in which range visits a map
\* with these keys
GenParamStr(ps, order) ==
    QueryUnescape(ValuesEncode(CollectParams(ps, order),
                               SelectSeq(order, LAMBDA k : ps[k] # EmptyStr)))

\* the orders in which a map with key set S can be ranged over
RangeOrders(S) ==
    {o \in [1..Cardinality(S) -> S] : \A i, j \in 1..Cardinality(S) : i # j => o[i] # o[j]}
-----------------------------------------------------------------------------
(* crypto/md5, on strings of byte codes.  A 32-bit word is the pair        *)
(* <<high 16 bits, low 16 bits>> so that no intermediate value exceeds the *)
(* checker's integer range; arithmetic is modulo 2^32 as in the library.   *)

Half == 2 ^ 16

\* bitwise AND of two 4-bit values: AndNibble[a + 1][b + 1] = a & b
AndNibble == <<
    <<0, 0, 0, 0, 0, 0, 0, 0, 0, 0, 0, 0, 0, 0, 0, 0>>,
    <<0, 1, 0, 1, 0, 1, 0, 1, 0, 1, 0, 1, 0, 1, 0, 1>>,
    <<0, 0, 2, 2, 0, 0, 2, 2, 0, 0, 2, 2, 0, 0, 2, 2>>,
    <<0, 1, 2, 3, 0, 1, 2, 3, 0, 1, 2, 3, 0, 1, 2, 3>>,
    <<0, 0, 0, 0, 4, 4, 4, 4, 0, 0, 0, 0, 4, 4, 4, 4>>,
    <<0, 1, 0, 1, 4, 5, 4, 5, 0, 1, 0, 1, 4, 5, 4, 5>>,
    <<0, 0, 2, 2, 4, 4, 6, 6, 0, 0, 2, 2, 4, 4, 6, 6>>,
    <<0, 1, 2, 3, 4, 5, 6, 7, 0, 1, 2, 3, 4, 5, 6, 7>>,
    <<0, 0, 0, 0, 0, 0, 0, 0, 8, 8, 8, 8, 8, 8, 8, 8>>,
    <<0, 1, 0, 1, 0, 1, 0, 1, 8, 9, 8, 9, 8, 9, 8, 9>>,
    <<0, 0, 2, 2, 0, 0, 2, 2, 8, 8, 10, 10, 8, 8, 10, 10>>,
    <<0, 1, 2, 3, 0, 1, 2, 3, 8, 9, 10, 11, 8, 9, 10, 11>>,
    <<0, 0, 0, 0, 4, 4, 4, 4, 8, 8, 8, 8, 12, 12, 12, 12>>,
    <<0, 1, 0, 1, 4, 5, 4, 5, 8, 9, 8, 9, 12, 13, 12, 13>>,
    <<0, 0, 2, 2, 4, 4, 6, 6, 8, 8, 10, 10, 12, 12, 14, 14>>,
    <<0, 1, 2, 3, 4, 5, 6, 7, 8, 9, 10, 11, 12, 13, 14, 15>>
>>

And8(a, b) ==
    AndNibble[(a % 16) + 1][(b % 16) + 1] + 16 * AndNibble[(a \div 16) + 1][(b \div 16) + 1]

And16(a, b) == And8(a % 256, b % 256) + 256 * And8(a \div 256, b \div 256)

WAdd(a, b) ==
    LET lo == a[2] + b[2]
        hi == a[1] + b[1] + (lo \div Half)
    IN  <<hi % Half, lo % Half>>

WAnd(a, b) == <<And16(a[1], b[1]), And16(a[2], b[2])>>
WNot(a) == <<(Half - 1) - a[1], (Half - 1) - a[2]>>
WOr(a, b) == <<a[1] + b[1] - And16(a[1], b[1]), a[2] + b[2] - And16(a[2], b[2])>>
WXor(a, b) == <<a[1] + b[1] - 2 * And16(a[1], b[1]), a[2] + b[2] - 2 * And16(a[2], b[2])>>

\* bits.RotateLeft32
RotL(w, s) ==
    LET y == IF s >= 16 THEN <<w[2], w[1]>> ELSE w
        r == s % 16
        p == 2 ^ (16 - r)
        q == 2 ^ r
    IN  IF r = 0 THEN y
        ELSE <<(y[1] % p) * q + (y[2] \div p), (y[2] % p) * q + (y[1] \div p)>>

Md5Shift == <<7, 12, 17, 22, 7, 12, 17, 22, 7, 12, 17, 22, 7, 12, 17, 22,
              5, 9, 14, 20, 5, 9, 14, 20, 5, 9, 14, 20, 5, 9, 14, 20,
              4, 11, 16, 23, 4, 11, 16, 23, 4, 11, 16, 23, 4, 11, 16, 23,
              6, 10, 15, 21, 6, 10, 15, 21, 6, 10, 15, 21, 6, 10, 15, 21>>

Md5K == <<
    <<55146, 42104>>, <<59591, 46934>>, <<9248, 28891>>, <<49597, 52974>>,
    <<62844, 4015>>, <<18311, 50730>>, <<43056, 17939>>, <<64838, 38145>>,
    <<27008, 39128>>, <<35652, 63407>>, <<65535, 23473>>, <<35164, 55230>>,
    <<27536, 4386>>, <<64920, 29075>>, <<42617, 17294>>, <<18868, 2081>>,
    <<63006, 9570>>, <<49216, 45888>>, <<9822, 23121>>, <<59830, 51114>>,
    <<54831, 4189>>, <<580, 5203>>, <<55457, 59009>>, <<59347, 64456>>,
    <<8673, 52710>>, <<49975, 2006>>, <<62677, 3463>>, <<17754, 5357>>,
    <<43491, 59653>>, <<64751, 41976>>, <<26479, 729>>, <<36138, 19594>>,
    <<65530, 14658>>, <<34673, 63105>>, <<28061, 24866>>, <<64997, 14348>>,
    <<42174, 59972>>, <<19422, 53161>>, <<63163, 19296>>, <<48831, 48240>>,
    <<10395, 32454>>, <<60065, 10234>>, <<54511, 12421>>, <<1160, 7429>>,
    <<55764, 53305>>, <<59099, 39397>>, <<8098, 31992>>, <<50348, 22117>>,
    <<62505, 8772>>, <<17194, 65431>>, <<43924, 9127>>, <<64659, 41017>>,
    <<25947, 22979>>, <<36620, 52370>>, <<65519, 62589>>, <<34180, 24017>>,
    <<28584, 32335>>, <<65068, 59104>>, <<41729, 17172>>, <<19976, 4513>>,
    <<63315, 32386>>, <<48442, 62005>>, <<10967, 53947>>, <<60294, 54161>>
>>

Md5InitState == <<<<26437, 8961>>, <<61389, 43913>>, <<39098, 56574>>, <<4146, 21622>>>>

Zeros(n) == [i \in 1..n |-> 0]

\* the message followed by 0x80, zero bytes up to 56 mod 64, and the bit
\* length as 8 little-endian bytes
Md5Pad(msg) ==
    LET n == Len(msg)
        z == (119 - (n % 64)) % 64
        bits == 8 * n
    IN  msg \o <<128>> \o Zeros(z)
            \o <<bits % 256, (bits \div 256) % 256, (bits \div 65536) % 256,
                 (bits \div 16777216) % 256, 0, 0, 0, 0>>

\* little-endian word g (0..15) of block j (0..) of the padded message
Md5Word(p, j, g) ==
    LET o == 64 * j + 4 * g
    IN  <<p[o + 3] + 256 * p[o + 4], p[o + 1] + 256 * p[o + 2]>>

Md5Step(st, p, j, i) ==
    LET A == st[1]
        B == st[2]
        C == st[3]
        D == st[4]
        F == CASE i < 16 -> WOr(WAnd(B, C), WAnd(WNot(B), D))
               [] i < 32 -> WOr(WAnd(D, B), WAnd(WNot(D), C))
               [] i < 48 -> WXor(WXor(B, C), D)
               [] OTHER  -> WXor(C, WOr(B, WNot(D)))
        g == CASE i < 16 -> i
               [] i < 32 -> (5 * i + 1) % 16
               [] i < 48 -> (3 * i + 5) % 16
               [] OTHER  -> (7 * i) % 16
        T == WAdd(WAdd(WAdd(F, A), Md5K[i + 1]), Md5Word(p, j, g))
    IN  <<D, WAdd(B, RotL(T, Md5Shift[i + 1])), B, C>>

RECURSIVE Md5Rounds(_, _, _, _, _)
\* steps lo .. hi-1 of the 64 steps of one block, applied in order
Md5Rounds(st, p, j, lo, hi) ==
    IF Len(st) = 4 /\ hi > lo + 1
    THEN LET mid == (lo + hi) \div 2
         IN  Md5Rounds(Md5Rounds(st, p, j, lo, mid), p, j, mid, hi)
    ELSE Md5Step(st, p, j, lo)

\* the state after a block: the state before it plus the rounds' result
Md5AddState(st, r) ==
    <<WAdd(st[1], r[1]), WAdd(st[2], r[2]), WAdd(st[3], r[3]), WAdd(st[4], r[4])>>

RECURSIVE Md5Blocks(_, _, _)
Md5Blocks(st, p, j) ==
    IF 64 * j >= Len(p) THEN st
    ELSE Md5Blocks(Md5AddState(st, Md5Rounds(st, p, j, 0, 64)), p, j + 1)

WordBytes(w) == <<w[2] % 256, w[2] \div 256, w[1] % 256, w[1] \div 256>>

Md5Digest(st) ==
    WordBytes(st[1]) \o WordBytes(st[2]) \o WordBytes(st[3]) \o WordBytes(st[4])

\* hasher.Write(msg); hasher.Sum(nil): the 16 digest bytes
Md5Sum(msg) == Md5Digest(Md5Blocks(Md5InitState, Md5Pad(msg), 0))

\* hex.EncodeToString: two lower-case hex digits per byte
HexLower(n) == IF n < 10 THEN 48 + n ELSE 87 + n

HexEncodeToString(bs) ==
    [i \in 1..(2 * Len(bs)) |->
        IF i % 2 = 1 THEN HexLower(bs[(i + 1) \div 2] \div 16)
        ELSE HexLower(bs[i \div 2] % 16)]

\* strings.ToUpper on ASCII
ToUpper(s) == [i \in 1..Len(s) |-> IF s[i] >= 97 /\ s[i] <= 122 THEN s[i] - 32 ELSE s[i]]

\* a digest rendered in lower-case hexadecimal
HashMd5LowerCase(signStr) == HexEncodeToString(Md5Sum(signStr))

HashMd5(signStr) == ToUpper(HexEncodeToString(Md5Sum(signStr)))
-----------------------------------------------------------------------------
(* JSON / XML field names of the request structs of req_wxmch.go *)

F_return_code == <<114, 101, 116, 117, 114, 110, 95, 99, 111, 100, 101>>
F_return_msg == <<114, 101, 116, 117, 114, 110, 95, 109, 115, 103>>
F_appid == <<97, 112, 112, 105, 100>>
F_mch_id == <<109, 99, 104, 95, 105, 100>>
F_device_info == <<100, 101, 118, 105, 99, 101, 95, 105, 110, 102, 111>>
F_nonce_str == <<110, 111, 110, 99, 101, 95, 115, 116, 114>>
F_sign == <<115, 105, 103, 110>>
F_sign_type == <<115, 105, 103, 110, 95, 116, 121, 112, 101>>
F_result_code == <<114, 101, 115, 117, 108, 116, 95, 99, 111, 100, 101>>
F_err_code == <<101, 114, 114, 95, 99, 111, 100, 101>>
F_err_code_des == <<101, 114, 114, 95, 99, 111, 100, 101, 95, 100, 101, 115>>
F_openid == <<111, 112, 101, 110, 105, 100>>
F_is_subscribe == <<105, 115, 95, 115, 117, 98, 115, 99, 114, 105, 98, 101>>
F_trade_type == <<116, 114, 97, 100, 101, 95, 116, 121, 112, 101>>
F_bank_type == <<98, 97, 110, 107, 95, 116, 121, 112, 101>>
F_total_fee == <<116, 111, 116, 97, 108, 95, 102, 101, 101>>
F_fee_type == <<102, 101, 101, 95, 116, 121, 112, 101>>
F_cash_fee == <<99, 97, 115, 104, 95, 102, 101, 101>>
F_cash_fee_type == <<99, 97, 115, 104, 95, 102, 101, 101, 95, 116, 121, 112, 101>>
F_transaction_id == <<116, 114, 97, 110, 115, 97, 99, 116, 105, 111, 110, 95, 105, 100>>
F_out_trade_no == <<111, 117, 116, 95, 116, 114, 97, 100, 101, 95, 110, 111>>
F_time_end == <<116, 105, 109, 101, 95, 101, 110, 100>>
F_mch_appid == <<109, 99, 104, 95, 97, 112, 112, 105, 100>>
F_mchid == <<109, 99, 104, 105, 100>>
F_partner_trade_no == <<112, 97, 114, 116, 110, 101, 114, 95, 116, 114, 97, 100, 101, 95, 110, 111>>
F_check_name == <<99, 104, 101, 99, 107, 95, 110, 97, 109, 101>>
F_amount == <<97, 109, 111, 117, 110, 116>>
F_desc == <<100, 101, 115, 99>>
F_spbill_create_ip == <<115, 112, 98, 105, 108, 108, 95, 99, 114, 101, 97, 116, 101, 95, 105, 112>>
F_out_refund_no == <<111, 117, 116, 95, 114, 101, 102, 117, 110, 100, 95, 110, 111>>
F_refund_fee == <<114, 101, 102, 117, 110, 100, 95, 102, 101, 101>>
F_refund_desc == <<114, 101, 102, 117, 110, 100, 95, 100, 101, 115, 99>>

NotifyReqFields == <<
    [json |-> F_return_code, go |-> "string"],
    [json |-> F_return_msg, go |-> "string"],
    [json |-> F_appid, go |-> "string"],
    [json |-> F_mch_id, go |-> "string"],
    [json |-> F_device_info, go |-> "string"],
    [json |-> F_nonce_str, go |-> "string"],
    [json |-> F_sign, go |-> "string"],
    [json |-> F_sign_type, go |-> "string"],
    [json |-> F_result_code, go |-> "string"],
    [json |-> F_err_code, go |-> "string"],
    [json |-> F_err_code_des, go |-> "string"],
    [json |-> F_openid, go |-> "string"],
    [json |-> F_is_subscribe, go |-> "string"],
    [json |-> F_trade_type, go |-> "string"],
    [json |-> F_bank_type, go |-> "string"],
    [json |-> F_total_fee, go |-> "string"],
    [json |-> F_fee_type, go |-> "string"],
    [json |-> F_cash_fee, go |-> "string"],
    [json |-> F_cash_fee_type, go |-> "string"],
    [json |-> F_transaction_id, go |-> "string"],
    [json |-> F_out_trade_no, go |-> "string"],
    [json |-> F_time_end, go |-> "string"]
>>

MchPayReqFields == <<
    [json |-> F_mch_appid, go |-> "string"],
    [json |-> F_mchid, go |-> "string"],
    [json |-> F_nonce_str, go |-> "string"],
    [json |-> F_sign, go |-> "string"],
    [json |-> F_partner_trade_no, go |-> "string"],
    [json |-> F_openid, go |-> "string"],
    [json |-> F_check_name, go |-> "string"],
    [json |-> F_amount, go |-> "int64,string"],
    [json |-> F_desc, go |-> "string"],
    [json |-> F_spbill_create_ip, go |-> "string"]
>>

MchPayRefundReqFields == <<
    [json |-> F_appid, go |-> "string"],
    [json |-> F_mch_id, go |-> "string"],
    [json |-> F_nonce_str, go |-> "string"],
    [json |-> F_sign, go |-> "string"],
    [json |-> F_transaction_id, go |-> "string"],
    [json |-> F_out_refund_no, go |-> "string"],
    [json |-> F_total_fee, go |-> "int64,string"],
    [json |-> F_refund_fee, go |-> "int64,string"],
    [json |-> F_refund_desc, go |-> "string"]
>>

\* the fields of a struct type, in declaration order, with the name its json
\* tag gives (the xml tag gives the same name) and its Go type
\* UnifiedOrderReq
UnifiedOrderReqFields ==
    <<
      [json |-> F_appid, go |-> "string"],
      [json |-> F_mch_id, go |-> "string"],
      [json |-> F_device_info, go |-> "string"],
      [json |-> F_nonce_str, go |-> "string"],
      [json |-> F_sign, go |-> "string"],
      [json |-> F_sign_type, go |-> "string"],
      [json |-> <<98, 111, 100, 121>>, go |-> "string"],   \* "body"
      [json |-> <<100, 101, 116, 97, 105, 108>>, go |-> "string"],   \* "detail"
      [json |-> <<97, 116, 116, 97, 99, 104>>, go |-> "string"],   \* "attach"
      [json |-> F_out_trade_no, go |-> "string"],
      [json |-> F_fee_type, go |-> "string"],
      [json |-> F_total_fee, go |-> "int64,string"],
      [json |-> F_spbill_create_ip, go |-> "string"],
      [json |-> <<116, 105, 109, 101, 95, 115, 116, 97, 114, 116>>, go |-> "string"],   \* "time_start"
      [json |-> <<116, 105, 109, 101, 95, 101, 120, 112, 105, 114, 101>>, go |-> "string"],   \* "time_expire"
      [json |-> <<103, 111, 111, 100, 115, 95, 116, 97, 103>>, go |-> "string"],   \* "goods_tag"
      [json |-> <<110, 111, 116, 105, 102, 121, 95, 117, 114, 108>>, go |-> "string"],   \* "notify_url"
      [json |-> F_trade_type, go |-> "string"],
      [json |-> F_openid, go |-> "string"]
    >>

\* QueryOrderResp: total_fee, settlement_total_fee and cash_fee are int64 without ,string
QueryOrderRespFields ==
    <<
      [json |-> F_return_code, go |-> "string"],
      [json |-> F_return_msg, go |-> "string"],
      [json |-> F_appid, go |-> "string"],
      [json |-> F_mch_id, go |-> "string"],
      [json |-> F_nonce_str, go |-> "string"],
      [json |-> F_sign, go |-> "string"],
      [json |-> F_result_code, go |-> "string"],
      [json |-> F_err_code, go |-> "string"],
      [json |-> F_err_code_des, go |-> "string"],
      [json |-> F_device_info, go |-> "string"],
      [json |-> F_openid, go |-> "string"],
      [json |-> F_is_subscribe, go |-> "string"],
      [json |-> F_trade_type, go |-> "string"],
      [json |-> <<116, 114, 97, 100, 101, 95, 115, 116, 97, 116, 101>>, go |-> "string"],   \* "trade_state"
      [json |-> <<116, 114, 97, 100, 101, 95, 115, 116, 97, 116, 101, 95, 100, 101, 115, 99>>, go |-> "string"],   \* "trade_state_desc"
      [json |-> F_bank_type, go |-> "string"],
      [json |-> F_total_fee, go |-> "int64"],
      [json |-> <<115, 101, 116, 116, 108, 101, 109, 101, 110, 116, 95, 116, 111, 116, 97, 108, 95, 102, 101, 101>>, go |-> "int64"],   \* "settlement_total_fee"
      [json |-> F_fee_type, go |-> "string"],
      [json |-> F_cash_fee, go |-> "int64"],
      [json |-> F_cash_fee_type, go |-> "string"],
      [json |-> F_transaction_id, go |-> "string"],
      [json |-> F_out_trade_no, go |-> "string"],
      [json |-> F_time_end, go |-> "string"]
    >>

\* SubscribeMessageReq; a map, bool or nested struct field holds its JSON text
SubscribeMessageReqFields ==
    <<
      [json |-> <<116, 111, 117, 115, 101, 114>>, go |-> "string"],   \* "touser"
      [json |-> <<116, 101, 109, 112, 108, 97, 116, 101, 95, 105, 100>>, go |-> "string"],   \* "template_id"
      [json |-> <<112, 97, 103, 101>>, go |-> "string"],   \* "page"
      [json |-> <<100, 97, 116, 97>>, go |-> "map"],   \* "data"
      [json |-> <<109, 105, 110, 105, 112, 114, 111, 103, 114, 97, 109, 95, 115, 116, 97, 116, 101>>, go |-> "string"],   \* "miniprogram_state"
      [json |-> <<108, 97, 110, 103>>, go |-> "string"]   \* "lang"
    >>

\* WxCodeUnlimitedReq
WxCodeUnlimitedReqFields ==
    <<
      [json |-> <<115, 99, 101, 110, 101>>, go |-> "string"],   \* "scene"
      [json |-> <<112, 97, 103, 101>>, go |-> "string"],   \* "page"
      [json |-> <<119, 105, 100, 116, 104>>, go |-> "int"],   \* "width"
      [json |-> <<97, 117, 116, 111, 95, 99, 111, 108, 111, 114>>, go |-> "bool"],   \* "auto_color"
      [json |-> <<108, 105, 110, 101, 95, 99, 111, 108, 111, 114>>, go |-> "struct"],   \* "line_color"
      [json |-> <<105, 115, 95, 104, 121, 97, 108, 105, 110, 101>>, go |-> "bool"]   \* "is_hyaline"
    >>

\* the map[string]string{"content": msg} of CheckMessage
CheckMessageReqFields ==
    <<
      [json |-> <<99, 111, 110, 116, 101, 110, 116>>, go |-> "string"]   \* "content"
    >>

\* QueryOrderReq
QueryOrderReqFields ==
    <<[json |-> F_appid, go |-> "string"], [json |-> F_mchid, go |-> "string"],
      [json |-> F_out_trade_no, go |-> "string"], [json |-> F_nonce_str, go |-> "string"],
      [json |-> F_sign, go |-> "string"], [json |-> F_sign_type, go |-> "string"]>>

StructFields(type) ==
    CASE type = "NotifyReq"       -> NotifyReqFields
      [] type = "MchPayReq"       -> MchPayReqFields
      [] type = "MchPayRefundReq" -> MchPayRefundReqFields
      [] type = "UnifiedOrderReq" -> UnifiedOrderReqFields
      [] type = "QueryOrderReq"   -> QueryOrderReqFields
      [] type = "QueryOrderResp"  -> QueryOrderRespFields
      [] type = "SubscribeMessageReq" -> SubscribeMessageReqFields
      [] type = "WxCodeUnlimitedReq"  -> WxCodeUnlimitedReqFields
      [] type = "map[string]string"   -> CheckMessageReqFields

FieldNames(type) == {StructFields(type)[i].json : i \in 1..Len(StructFields(type))}

\* the zero value of a struct type
ZeroValue(type) ==
    [type |-> type,
     val  |-> [n \in FieldNames(type) |->
                 LET i == CHOOSE j \in 1..Len(StructFields(type)) : StructFields(type)[j].json = n
                     go == StructFields(type)[i].go
                 IN  CASE go = "string" -> EmptyStr
                       [] go = "bool"   -> <<102, 97, 108, 115, 101>>       \* false
                       [] go = "map"    -> <<110, 117, 108, 108>>           \* null
                       [] go = "struct" -> <<123, 34, 114, 34, 58, 48, 44, 34, 103, 34, 58, 48,
                                             44, 34, 98, 34, 58, 48, 125>>  \* {"r":0,"g":0,"b":0}
                       [] OTHER         -> 0]]

\* a struct value with some fields assigned
With(o, n, v) == [o EXCEPT !.val[n] = v]
-----------------------------------------------------------------------------
(* encoding/json as wxService.sign uses it: a struct is marshaled to an   *)
(* object, here the sequence of its <<key, value text>> members in field  *)
(* declaration order, and unmarshaled into a map[string]string.           *)

ErrUnmarshal == "json: cannot unmarshal number into Go value of type string"

RECURSIVE FormatUint(_)
FormatUint(n) ==
    IF n < 10 THEN <<48 + n>> ELSE FormatUint(n \div 10) \o <<48 + (n % 10)>>

\* strconv.FormatInt(n, 10)
FormatInt(n) == IF n < 0 THEN <<45>> \o FormatUint(0 - n) ELSE FormatUint(n)

\* what json.Marshal writes for one byte of a string (HTML-safe)
JsonEscapeByte(c) ==
    CASE c = 34 -> <<92, 34>>
      [] c = 92 -> <<92, 92>>
      [] c = 10 -> <<92, 110>>
      [] c = 13 -> <<92, 114>>
      [] c = 9  -> <<92, 116>>
      [] c < 32 \/ c \in {60, 62, 38} ->
             <<92, 117, 48, 48, HexLower(c \div 16), HexLower(c % 16)>>
      [] OTHER -> <<c>>

JsonEscape(s) == Flatten([i \in 1..Len(s) |-> JsonEscapeByte(s[i])], 1, Len(s))

JsonQuote(s) == <<34>> \o JsonEscape(s) \o <<34>>

\* the number of consecutive backslashes ending at position i of t
BackslashRun(t, i) ==
    i - (CHOOSE j \in 0..i : (j = 0 \/ t[j] # 92) /\ \A n \in (j + 1)..i : t[n] = 92)

\* position i of a JSON string literal body starts an escape sequence
EscStart(t, i) == t[i] = 92 /\ BackslashRun(t, i) % 2 = 1

\* position i is one of the four hex digits of a \uXXXX escape
InUnicodeTail(t, i) ==
    \E d \in 1..4 : i - d >= 2 /\ t[i - d] = 117 /\ EscStart(t, i - d - 1)

\* what the decoder of a JSON string literal yields at position i
JsonUnescapeAt(t, i) ==
    IF InUnicodeTail(t, i) \/ EscStart(t, i) THEN <<>>
    ELSE IF i > 1 /\ EscStart(t, i - 1)
         THEN CASE t[i] = 110 -> <<10>>
                [] t[i] = 114 -> <<13>>
                [] t[i] = 116 -> <<9>>
                [] t[i] = 117 -> <<16 * UnHex(t[i + 3]) + UnHex(t[i + 4])>>
                [] OTHER      -> <<t[i]>>
         ELSE <<t[i]>>

\* the string a JSON string literal body denotes
JsonUnescape(t) == Flatten([i \in 1..Len(t) |-> JsonUnescapeAt(t, i)], 1, Len(t))

\* the JSON text of one struct field, by its Go type and tag
JsonValue(go, val) ==
    CASE go = "string"       -> JsonQuote(val)
      [] go = "int64,string" -> <<34>> \o FormatInt(val) \o <<34>>
      [] go \in {"map", "bool", "struct"} -> val
      [] OTHER               -> FormatInt(val)

\* json.Marshal of a struct (through any number of pointers)
JsonMarshal(o) ==
    LET fs == StructFields(o.type)
    IN  [i \in 1..Len(fs) |-> <<fs[i].json, JsonValue(fs[i].go, o.val[fs[i].json])>>]

IsJsonString(t) == Len(t) >= 2 /\ t[1] = 34

\* an Unmarshal that takes a value that is not a JSON string by its text
JsonUnmarshalLenient(members) ==
    [params |-> [k \in {members[i][1] : i \in 1..Len(members)} |->
                    LET i == CHOOSE n \in 1..Len(members) :
                                /\ members[n][1] = k
                                /\ \A m \in (n + 1)..Len(members) : members[m][1] # k
                        t == members[i][2]
                    IN  IF IsJsonString(t) THEN JsonUnescape(SubSeq(t, 2, Len(t) - 1)) ELSE t],
     err |-> NoErr]

\* json.Unmarshal(buf, &params) with params of type map[string]string
JsonUnmarshalStringMap(members) ==
    IF \A i \in 1..Len(members) : IsJsonString(members[i][2])
    THEN [params |-> [k \in {members[i][1] : i \in 1..Len(members)} |->
                        LET i == CHOOSE n \in 1..Len(members) :
                                    /\ members[n][1] = k
                                    /\ \A m \in (n + 1)..Len(members) : members[m][1] # k
                            t == members[i][2]
                        IN  JsonUnescape(SubSeq(t, 2, Len(t) - 1))],
          err |-> NoErr]
    ELSE [params |-> <<>>, err |-> ErrUnmarshal]

\* wxService.sign(ctx, req) for a service with the given key; order is the
\* order in which GenParamStr ranges over the unmarshaled map
sign(k, req, order) ==
    LET u == JsonUnmarshalStringMap(JsonMarshal(req))
        p == GenParamStr(u.params, order)
        stringSignTemp == p.str \o AmpKeyEq \o k
    IN  IF u.err # NoErr THEN [sign |-> EmptyStr, err |-> u.err, signed |-> EmptyStr]
        ELSE IF p.err # NoErr THEN [sign |-> EmptyStr, err |-> p.err, signed |-> EmptyStr]
        ELSE [sign |-> HashMd5(stringSignTemp), err |-> NoErr, signed |-> stringSignTemp]
-----------------------------------------------------------------------------
(* wxService.DoReq: the body and headers it builds *)

contentTypeXML == "application/xml"
contentTypeJSON == "application/json"
\* a request body: nil, or the bytes of a document with its content type
NilBody == [nil |-> TRUE, contentType |-> "", doc |-> <<>>]

\* what xml.EscapeText writes for one byte of character data
XmlEscapeByte(c) ==
    CASE c = 38 -> <<38, 97, 109, 112, 59>>        \* &amp;
      [] c = 60 -> <<38, 108, 116, 59>>            \* &lt;
      [] c = 62 -> <<38, 103, 116, 59>>            \* &gt;
      [] c = 34 -> <<38, 35, 51, 52, 59>>          \* &#34;
      [] c = 39 -> <<38, 35, 51, 57, 59>>          \* &#39;
      [] OTHER  -> <<c>>

XmlEscapeText(s) == Flatten([i \in 1..Len(s) |-> XmlEscapeByte(s[i])], 1, Len(s))

\* xml.Marshal of a struct: one element per field, in declaration order
XmlMarshal(o) ==
    LET fs == StructFields(o.type)
    IN  [i \in 1..Len(fs) |->
            <<fs[i].json,
              XmlEscapeText(IF fs[i].go = "string" THEN o.val[fs[i].json]
                            ELSE FormatInt(o.val[fs[i].json]))>>]

\* the switch of DoReq on contentType and the Content-Type header it sets:
\* the XML or JSON marshaling of req, req itself if it is a []byte, no body
\* otherwise; the record carries the header value next to the body
DoReqBody(contentType, req) ==
    CASE contentType = contentTypeXML ->
             [body |-> [nil |-> FALSE, contentType |-> contentType, doc |-> XmlMarshal(req)], err |-> NoErr]
      [] contentType = contentTypeJSON ->
             [body |-> [nil |-> FALSE, contentType |-> contentType, doc |-> JsonMarshal(req)], err |-> NoErr]
      [] OTHER ->
             IF req.type = "[]byte"
             THEN [body |-> [nil |-> FALSE, contentType |-> contentType, doc |-> req.val], err |-> NoErr]
             ELSE [body |-> [nil |-> TRUE, contentType |-> contentType, doc |-> <<>>], err |-> NoErr]

-----------------------------------------------------------------------------
(* ctxHttp.Do / ctxHttp.do *)

\* the handlers a caller can pass: the closure every Req* operation uses
\* (return err if err # nil, else the decoder's result), one that swallows
\* the transport error, and one that panics
Handlers == {"propagate", "swallow", "panic"}

\* HandlerFunc applied to (response, err); decodeErr is the decoder's verdict
HandlerFunc(h, resp, err, decodeErr) ==
    CASE h = "propagate" -> IF err # NoErr THEN err ELSE decodeErr
      [] h = "swallow"   -> IF err # NoErr THEN NoErr ELSE decodeErr
      [] OTHER           -> None

DispatchInit ==
    /\ callerPc = "idle"
    /\ gPc = "none"
    /\ ctxErr = NoErr
    /\ f = None
    /\ reqBody = NilBody
    /\ netOut = <<>>
    /\ fArgs = <<>>
    /\ fRet = None
    /\ sendVal = None
    /\ result = None
    /\ gBranch = None
    /\ panicLog = FALSE
    /\ firedInFlight = FALSE
    /\ firedInHandler = FALSE
    /\ wire = <<>>
    /\ dispatches = 0

\* the deadline of the context of the dispatch in progress passes, or its
\* owner calls cancel()
CtxFire(e) ==
    /\ callerPc = "blocked"
    /\ ctxErr = NoErr
    /\ ctxErr' = e
    /\ firedInFlight' = (firedInFlight \/ gPc = "netcall")
    /\ firedInHandler' = (firedInHandler \/ gPc = "handler")
    /\ UNCHANGED <<callerPc, gPc, f, reqBody, netOut, fArgs, fRet, sendVal,
                   result, gBranch, panicLog, wire, dispatches>>
    /\ UNCHANGED <<evars, svars, ovars, rvars, mvars>>

\* Do(ctx, method, url, headers, body, h): http.NewRequest fails -> return
\* err; else do(): make(chan error), go func(){...}(), and block on <-c.
\* ctx0 is ctx.Err() at the time of the call.
DoCall(ctx0, reqOk, body, h) ==
    /\ callerPc \in {"idle", "returned"}
    /\ dispatches < MaxDispatches
    /\ dispatches' = dispatches + 1
    /\ ctxErr' = ctx0
    /\ f' = h
    /\ reqBody' = body
    /\ netOut' = <<>>
    /\ fArgs' = <<>>
    /\ fRet' = None
    /\ sendVal' = None
    /\ gBranch' = None
    /\ panicLog' = FALSE
    /\ firedInFlight' = FALSE
    /\ firedInHandler' = FALSE
    /\ wire' = wire
    /\ IF reqOk
         THEN /\ callerPc' = "blocked"
              /\ gPc' = "select"
              /\ result' = None
         ELSE /\ callerPc' = "returned"
              /\ gPc' = "none"
              /\ result' = ErrNewRequest

Do(ctx0, reqOk, body, h) ==
    /\ opPc = "idle"
    /\ DoCall(ctx0, reqOk, body, h)
    /\ UNCHANGED <<evars, svars, ovars, rvars, mvars>>

\* a select whose ctx.Done branch runs the handler on the context's error
GoSelectInvokesHandler ==
    /\ gPc = "select"
    /\ IF ctxErr # NoErr
         THEN /\ gBranch' = "ctx.Done"
              /\ fArgs' = Append(fArgs, <<NoResponse, ctxErr>>)
              /\ sendVal' = ctxErr
              /\ gPc' = "send"
              /\ wire' = wire
         ELSE /\ gBranch' = "default"
              /\ fArgs' = fArgs
              /\ sendVal' = sendVal
              /\ gPc' = "netcall"
              /\ wire' = Append(wire, reqBody)
    /\ UNCHANGED <<callerPc, ctxErr, f, reqBody, netOut, fRet, result,
                   panicLog, firedInFlight, firedInHandler, dispatches>>
    /\ UNCHANGED <<evars, svars, ovars, rvars, mvars>>

\* select { case <-ctx.Done(): c <- ctx.Err()  default: ... }
GoSelect ==
    /\ gPc = "select"
    /\ IF ctxErr # NoErr
         THEN /\ gBranch' = "ctx.Done"
              /\ sendVal' = ctxErr
              /\ gPc' = "send"
              /\ wire' = wire
         ELSE /\ gBranch' = "default"
              /\ sendVal' = sendVal
              /\ gPc' = "netcall"
              /\ wire' = Append(wire, reqBody)
    /\ UNCHANGED <<callerPc, ctxErr, f, reqBody, netOut, fArgs, fRet, result,
                   panicLog, firedInFlight, firedInHandler, dispatches>>
    /\ UNCHANGED <<evars, svars, ovars, rvars, mvars>>

\* the outcomes of h.client.Do(req): a response, a transport error, or,
\* once the context has fired, the context's error wrapped in a url.Error
ClientDoOutcomes ==
    {<<Response, NoErr>>, <<NoResponse, ErrTransport>>}
        \cup (IF ctxErr # NoErr THEN {<<NoResponse, UrlError(ctxErr)>>} ELSE {})

\* a dispatcher that sends a transport error to c without entering f
ClientDoShortCircuit(out) ==
    /\ gPc = "netcall"
    /\ out \in ClientDoOutcomes
    /\ netOut' = out
    /\ IF out[2] # NoErr
         THEN /\ fArgs' = fArgs
              /\ sendVal' = out[2]
              /\ gPc' = "send"
         ELSE /\ fArgs' = Append(fArgs, out)
              /\ sendVal' = sendVal
              /\ gPc' = "handler"
    /\ UNCHANGED <<callerPc, ctxErr, f, reqBody, fRet, result,
                   gBranch, panicLog, firedInFlight, firedInHandler, wire,
                   dispatches>>
    /\ UNCHANGED <<evars, svars, ovars, rvars, mvars>>

\* h.client.Do(req) returns and f is entered with its two results
ClientDo(out) ==
    /\ gPc = "netcall"
    /\ out \in ClientDoOutcomes
    /\ netOut' = out
    /\ fArgs' = Append(fArgs, out)
    /\ gPc' = "handler"
    /\ UNCHANGED <<callerPc, ctxErr, f, reqBody, fRet, sendVal, result,
                   gBranch, panicLog, firedInFlight, firedInHandler, wire,
                   dispatches>>
    /\ UNCHANGED <<evars, svars, ovars, rvars, mvars>>

\* a dispatcher that sends ctx.Err() instead of f's value once the context
\* has fired
HandlerReturnObservesCtx(decodeErr) ==
    /\ gPc = "handler"
    /\ f # "panic"
    /\ fRet' = HandlerFunc(f, netOut[1], netOut[2], decodeErr)
    /\ sendVal' = IF ctxErr # NoErr THEN ctxErr ELSE fRet'
    /\ gPc' = "send"
    /\ UNCHANGED <<callerPc, ctxErr, f, reqBody, netOut, fArgs, result,
                   gBranch, panicLog, firedInFlight, firedInHandler, wire,
                   dispatches>>
    /\ UNCHANGED <<evars, svars, ovars, rvars, mvars>>

\* f returns; its value is the operand of c <- ...
HandlerReturn(decodeErr) ==
    /\ gPc = "handler"
    /\ f # "panic"
    /\ fRet' = HandlerFunc(f, netOut[1], netOut[2], decodeErr)
    /\ sendVal' = fRet'
    /\ gPc' = "send"
    /\ UNCHANGED <<callerPc, ctxErr, f, reqBody, netOut, fArgs, result,
                   gBranch, panicLog, firedInFlight, firedInHandler, wire,
                   dispatches>>
    /\ UNCHANGED <<evars, svars, ovars, rvars, mvars>>

\* h.client.Do (a panicking RoundTripper) or f panics; the deferred func
\* recovers and logs, and the goroutine ends without sending on c
Recover(at) ==
    /\ gPc = at
    /\ at \in {"netcall", "handler"}
    /\ at = "handler" => f = "panic"
    /\ panicLog' = TRUE
    /\ gPc' = "exited"
    /\ UNCHANGED <<callerPc, ctxErr, f, reqBody, netOut, fArgs, fRet, sendVal,
                   result, gBranch, firedInFlight, firedInHandler, wire,
                   dispatches>>
    /\ UNCHANGED <<evars, svars, ovars, rvars, mvars>>

\* a caller that also selects on ctx.Done() and returns ctx.Err() without
\* receiving from c
ChanRendezvousOrAbandon ==
    /\ callerPc = "blocked"
    /\ \/ /\ gPc = "send"
          /\ result' = sendVal
          /\ gPc' = "exited"
       \/ /\ ctxErr # NoErr
          /\ result' = ctxErr
          /\ gPc' = gPc
    /\ callerPc' = "returned"
    /\ UNCHANGED <<ctxErr, f, reqBody, netOut, fArgs, fRet, sendVal, gBranch,
                   panicLog, firedInFlight, firedInHandler, wire, dispatches>>
    /\ UNCHANGED <<evars, svars, ovars, rvars, mvars>>

\* return <-c.  c is unbuffered: the goroutine's send and the caller's
\* receive happen together
ChanRendezvous ==
    /\ gPc = "send"
    /\ callerPc = "blocked"
    /\ result' = sendVal
    /\ callerPc' = "returned"
    /\ gPc' = "exited"
    /\ UNCHANGED <<ctxErr, f, reqBody, netOut, fArgs, fRet, sendVal, gBranch,
                   panicLog, firedInFlight, firedInHandler, wire, dispatches>>
    /\ UNCHANGED <<evars, svars, ovars, rvars, mvars>>

NotCalled == [called |-> FALSE]
NoObj == [type |-> "none", val |-> <<>>]

EncIdle == params = <<>> /\ encOut = NotCalled
SignIdle == key = EmptyStr /\ obj = NoObj /\ signOut = NotCalled /\ verifyLog = <<>> /\ calls = 0
OpIdle == opPc = "idle" /\ opEntry = NoObj /\ opRet = [op |-> None, ok |-> FALSE, err |-> NoErr]

\* the tasks that may call RandString
Tasks == {1, 2}

RandIdle ==
    /\ rPc = [t \in Tasks |-> "idle"]
    /\ rN = [t \in Tasks |-> 0]
    /\ rI = [t \in Tasks |-> 0]
    /\ rCache = [t \in Tasks |-> <<>>]
    /\ rRemain = [t \in Tasks |-> 0]
    /\ rB = [t \in Tasks |-> <<>>]
    /\ rDraws = [t \in Tasks |-> 0]
    /\ rTaken = [t \in Tasks |-> 0]

\* no URL given: a call of DoReq outside the wxMini operations
NoUrl == [base |-> None, hasToken |-> FALSE, access_token |-> EmptyStr]

MiniIdle ==
    /\ token = EmptyStr
    /\ doReqArgs = [called |-> FALSE, url |-> NoUrl, contentType |-> "", req |-> NoObj]

\* the bodies a direct caller of Do passes
Bodies == {NilBody, [nil |-> FALSE, contentType |-> "", doc |-> <<1, 2>>]}

Init == DispatchInit /\ EncIdle /\ SignIdle /\ OpIdle /\ RandIdle /\ MiniIdle

Goroutine ==
    \/ GoSelect
    \/ \E out \in ClientDoOutcomes : ClientDo(out)
    \/ \E d \in {NoErr, ErrDecode} : HandlerReturn(d)
    \/ \E at \in {"netcall", "handler"} : Recover(at)

Next ==
    \/ \E e \in CtxErrs : CtxFire(e)
    \/ \E ctx0 \in {NoErr} \cup CtxErrs, reqOk \in BOOLEAN, body \in Bodies, h \in Handlers :
          Do(ctx0, reqOk, body, h)
    \/ Goroutine
    \/ ChanRendezvous

Spec == Init /\ [][Next]_vars

\* the Go scheduler runs a runnable goroutine eventually; h.client.Do and f
\* are taken to return or panic; a ready rendezvous on c happens
FairSpec ==
    /\ Spec
    /\ WF_vars(Goroutine)
    /\ WF_vars(ChanRendezvous)

-----------------------------------------------------------------------------
(* GenParamStr on maps drawn from small pools *)

V_wx123 == <<119, 120, 49, 50, 51>>                                       \* "wx123"
V_1900 == <<49, 57, 48, 48>>                                              \* "1900"
V_ORDER1 == <<79, 82, 68, 69, 82, 49>>                                    \* "ORDER1"

\* {appid: wx123, mch_id: 1900, nonce_str: "", sign: "", out_trade_no: ORDER1}
ScenarioMap ==
    [k \in {F_appid, F_mch_id, F_nonce_str, F_sign, F_out_trade_no} |->
        CASE k = F_appid        -> V_wx123
          [] k = F_mch_id       -> V_1900
          [] k = F_out_trade_no -> V_ORDER1
          [] OTHER              -> EmptyStr]

\* "a", "B", "a+", "k e"
KeyPool == {<<97>>, <<66>>, <<97, 43>>, <<107, 32, 101>>}

\* "", "x", "1 2", "a+b", "100%", "%41", "a&b=c", "x&a=x"
ValPool == {EmptyStr, <<120>>, <<49, 32, 50>>, <<97, 43, 98>>, <<49, 48, 48, 37>>,
            <<37, 52, 49>>, <<97, 38, 98, 61, 99>>, <<120, 38, 97, 61, 120>>}

ParamMaps ==
    UNION {[D -> ValPool] : D \in {E \in SUBSET KeyPool : Cardinality(E) <= MaxParams}}

EncInit ==
    /\ DispatchInit /\ SignIdle /\ OpIdle /\ RandIdle /\ MiniIdle
    /\ params \in ParamMaps \cup {ScenarioMap}
    /\ encOut = NotCalled

GenParamStrCall(order) ==
    /\ LET r == GenParamStr(params, order)
       IN  encOut' = [called |-> TRUE, str |-> r.str, err |-> r.err]
    /\ UNCHANGED <<params, dvars, svars, ovars, rvars, mvars>>

EncNext == \E order \in RangeOrders(DOMAIN params) : GenParamStrCall(order)

EncSpec == EncInit /\ [][EncNext]_vars

-----------------------------------------------------------------------------
(* wxService.sign and wxPay.VerifySign on request objects from a small pool *)

V_wx1 == <<119, 120, 49>>           \* "wx1"
V_T1 == <<84, 49>>                  \* "T1"
V_special == <<97, 38, 98, 61, 99>> \* "a&b=c"
V_BAD == <<66, 65, 68>>             \* "BAD"
Key1 == <<107, 49>>                 \* "k1"
Key2 == <<107, 50>>                 \* "k2"

Keys == {Key1, Key2}

Notify0 == ZeroValue("NotifyReq")
Notify1 == With(With(Notify0, F_appid, V_wx1), F_out_trade_no, V_T1)
Notify2 == With(Notify1, F_return_msg, V_special)
MchPay1 == With(With(ZeroValue("MchPayReq"), F_mch_appid, V_wx1), F_amount, 1)
Refund1 == With(With(With(ZeroValue("MchPayRefundReq"), F_appid, V_wx1), F_total_fee, 20),
                F_refund_fee, 1)

\* the caller's object arrives with its Sign field empty or already set
WithSigns(S) == {With(o, F_sign, v) : o \in S, v \in {EmptyStr, V_BAD}}

\* a UnifiedOrderReq as its caller fills it
Unified1 == With(With(ZeroValue("UnifiedOrderReq"), F_appid, V_wx1), F_total_fee, 20)
\* a QueryOrderResp: its int64 fees marshal as JSON numbers
QueryResp1 == With(ZeroValue("QueryOrderResp"), F_appid, V_wx1)

NotifyObjects == WithSigns({Notify0, Notify1, Notify2})
ReqObjects == WithSigns({MchPay1, Refund1, Unified1})
SignObjects == NotifyObjects \cup {MchPay1, Refund1, QueryResp1}

Reverse(s) == [i \in 1..Len(s) |-> s[Len(s) + 1 - i]]

\* orders in which GenParamStr ranges over the flattened object: Go leaves
\* the order of a map range open; two opposite ones are explored here
SignOrders(type) ==
    LET decl == [i \in 1..Len(StructFields(type)) |-> StructFields(type)[i].json]
    IN  {decl, Reverse(decl)}

ToLower(s) == [i \in 1..Len(s) |-> IF s[i] >= 65 /\ s[i] <= 90 THEN s[i] + 32 ELSE s[i]]

\* what a caller may write into the Sign field: nothing, garbage, the
\* signature sign returned, or that signature with one character changed,
\* in lower case, or cut short
SignChoices ==
    {EmptyStr, V_BAD} \cup
    (IF signOut.called /\ signOut.out.err = NoErr
     THEN LET sig == signOut.out.sign
          IN  {sig,
               [sig EXCEPT ![1] = IF sig[1] = 48 THEN 49 ELSE 48],
               ToLower(sig),
               SubSeq(sig, 1, Len(sig) - 1)}
     ELSE {})

SignInit ==
    /\ DispatchInit /\ EncIdle /\ OpIdle /\ RandIdle /\ MiniIdle
    /\ key \in Keys
    /\ obj \in SignObjects
    /\ signOut = NotCalled
    /\ verifyLog = <<>>
    /\ calls = 0

\* sign, err := w.sign(ctx, &obj)
Sign(order) ==
    /\ calls < MaxCalls
    /\ calls' = calls + 1
    /\ signOut' = [called |-> TRUE, req |-> obj, out |-> sign(key, obj, order)]
    /\ UNCHANGED <<key, obj, verifyLog, dvars, evars, ovars, rvars, mvars>>

\* the caller assigns obj.Sign
CallerSetSign(v) ==
    /\ calls < MaxCalls
    /\ calls' = calls + 1
    /\ obj.val[F_sign] # v
    /\ obj' = With(obj, F_sign, v)
    /\ UNCHANGED <<key, signOut, verifyLog, dvars, evars, ovars, rvars, mvars>>

\* a verification that compares without regard to letter case
VerifySignIgnoreCase(order) ==
    /\ obj.type = "NotifyReq"
    /\ calls < MaxCalls
    /\ calls' = calls + 1
    /\ LET oldSign == obj.val[F_sign]
           req == With(obj, F_sign, EmptyStr)
           s == sign(key, req, order)
           ret == IF s.err # NoErr THEN FALSE ELSE ToUpper(oldSign) = s.sign
       IN  /\ obj' = req
           /\ verifyLog' = Append(verifyLog, [entry |-> obj, ret |-> ret, exit |-> req])
    /\ UNCHANGED <<key, signOut, dvars, evars, ovars, rvars, mvars>>

\* w.VerifySign(ctx, &obj)
VerifySign(order) ==
    /\ obj.type = "NotifyReq"
    /\ calls < MaxCalls
    /\ calls' = calls + 1
    /\ LET oldSign == obj.val[F_sign]
           req == With(obj, F_sign, EmptyStr)
           s == sign(key, req, order)
           ret == IF s.err # NoErr THEN FALSE ELSE oldSign = s.sign
       IN  /\ obj' = req
           /\ verifyLog' = Append(verifyLog, [entry |-> obj, ret |-> ret, exit |-> req])
    /\ UNCHANGED <<key, signOut, dvars, evars, ovars, rvars, mvars>>

SignNext ==
    \/ \E order \in SignOrders(obj.type) : Sign(order)
    \/ \E v \in SignChoices : CallerSetSign(v)
    \/ \E order \in SignOrders(obj.type) : VerifySign(order)

SignSpec == SignInit /\ [][SignNext]_vars

-----------------------------------------------------------------------------
(* wxMch.ReqWxToMchPay and wxMch.ReqPayRefund: sign, store the signature, *)
(* PostXML -> DoReq -> client.Do, and return what the dispatch returned   *)

ReqInit ==
    /\ DispatchInit /\ EncIdle /\ OpIdle /\ RandIdle /\ MiniIdle
    /\ key \in Keys
    /\ obj \in ReqObjects
    /\ signOut = NotCalled
    /\ verifyLog = <<>>
    /\ calls = 0

\* the part ReqWxToMchPay and ReqPayRefund share once w.sign has returned
\* s: an error returns (nil, err); else req.Sign = sign and PostXML runs
\* up to the point where the caller blocks inside ctxHttp.do.  ctx0 is
\* ctx.Err() at that time.
ReqSigned(op, s) ==
    IF s.err # NoErr
    THEN /\ opRet' = [op |-> op, ok |-> FALSE, err |-> s.err]
         /\ UNCHANGED <<opPc, opEntry, obj, dvars>>
    ELSE \E ctx0 \in {NoErr} \cup CtxErrs :
            /\ obj' = With(obj, F_sign, s.sign)
            /\ opPc' = op
            /\ opEntry' = obj
            /\ opRet' = opRet
            /\ DoCall(ctx0, TRUE, DoReqBody(contentTypeXML, obj').body, "propagate")

ReqWxToMchPay(order) ==
    /\ obj.type = "MchPayReq"
    /\ opPc = "idle"
    /\ callerPc \in {"idle", "returned"}
    /\ dispatches < MaxDispatches
    /\ ReqSigned("ReqWxToMchPay", sign(key, obj, order))
    /\ UNCHANGED <<key, signOut, verifyLog, calls, evars, rvars, mvars>>

ReqPayRefund(order) ==
    /\ obj.type = "MchPayRefundReq"
    /\ opPc = "idle"
    /\ callerPc \in {"idle", "returned"}
    /\ dispatches < MaxDispatches
    /\ ReqSigned("ReqPayRefund", sign(key, obj, order))
    /\ UNCHANGED <<key, signOut, verifyLog, calls, evars, rvars, mvars>>

\* w.ReqUnifiedOrder(ctx, &obj): PostXML of the caller's object as it is;
\* the operation neither calls w.sign nor writes req.Sign
ReqUnifiedOrder ==
    /\ obj.type = "UnifiedOrderReq"
    /\ opPc = "idle"
    /\ opPc' = "ReqUnifiedOrder"
    /\ opEntry' = obj
    /\ opRet' = opRet
    /\ \E ctx0 \in {NoErr} \cup CtxErrs :
          DoCall(ctx0, TRUE, DoReqBody(contentTypeXML, obj).body, "propagate")
    /\ UNCHANGED <<evars, svars, rvars, mvars>>

SignTypeMD5 == <<77, 68, 53>>  \* "MD5"

\* the part of ReqQueryOrder after w.sign has returned s for the request
\* req it built: an error returns (nil, err); else req.Sign = sign and
\* PostXML runs up to the point where the caller blocks
ReqBuiltSigned(op, req, s) ==
    IF s.err # NoErr
    THEN /\ opRet' = [op |-> op, ok |-> FALSE, err |-> s.err]
         /\ UNCHANGED <<opPc, opEntry, dvars>>
    ELSE \E ctx0 \in {NoErr} \cup CtxErrs :
            /\ opPc' = op
            /\ opEntry' = req
            /\ opRet' = opRet
            /\ DoCall(ctx0, TRUE, DoReqBody(contentTypeXML, With(req, F_sign, s.sign)).body,
                      "propagate")

\* w.ReqQueryOrder(ctx, tradeNo): the request is built from the
\* configuration, tradeNo and nonce = w.RandString(32), with Sign ""
ReqQueryOrder(tradeNo, nonce, order) ==
    /\ opPc = "idle"
    /\ callerPc \in {"idle", "returned"}
    /\ dispatches < MaxDispatches
    /\ LET req == [type |-> "QueryOrderReq",
                   val |-> [n \in FieldNames("QueryOrderReq") |->
                              CASE n = F_appid        -> V_wx1
                                [] n = F_mchid        -> V_1900
                                [] n = F_out_trade_no -> tradeNo
                                [] n = F_nonce_str    -> nonce
                                [] n = F_sign_type    -> SignTypeMD5
                                [] OTHER              -> EmptyStr]]
       IN  ReqBuiltSigned("ReqQueryOrder", req, sign(key, req, order))
    /\ UNCHANGED <<evars, svars, rvars, mvars>>

\* PostXML returned: (nil, err) if it failed, (&resp, nil) otherwise
ReqReturn ==
    /\ opPc # "idle"
    /\ callerPc = "returned"
    /\ opRet' = [op |-> opPc, ok |-> (result = NoErr), err |-> result]
    /\ opPc' = "idle"
    /\ UNCHANGED <<opEntry, dvars, evars, svars, rvars, mvars>>

ReqNext ==
    \/ \E order \in SignOrders(obj.type) : ReqWxToMchPay(order)
    \/ \E order \in SignOrders(obj.type) : ReqPayRefund(order)
    \/ ReqUnifiedOrder
    \/ \E nonce \in {[i \in 1..32 |-> 48], [i \in 1..32 |-> 122]},
          order \in SignOrders("QueryOrderReq") :
          ReqQueryOrder(V_T1, nonce, order)
    \/ ReqReturn
    \/ \E e \in CtxErrs : CtxFire(e)
    \/ Goroutine
    \/ ChanRendezvous

ReqSpec == ReqInit /\ [][ReqNext]_vars

-----------------------------------------------------------------------------
(* RandStringBytesMaskImprSrc over the package-level source src *)

\* "0123456789abcdefghijklmnopqrstuvwxyzABCDEFGHIJKLMNOPQRSTUVWXYZ"
letterBytes ==
    [i \in 1..62 |-> IF i <= 10 THEN 47 + i ELSE IF i <= 36 THEN 86 + i ELSE 28 + i]

letterIdxBits == 6
letterIdxMask == 2 ^ letterIdxBits - 1
letterIdxMax == 63 \div letterIdxBits

\* a 63-bit value is written in base 2^letterIdxBits, least significant
\* digit first: ten digits of six bits and the top three bits, so that
\* cache & letterIdxMask is the first digit and cache >>= letterIdxBits
\* drops it
Int63Of(a, b) == [i \in 1..11 |-> IF i = 11 THEN a % 8 ELSE IF i % 2 = 1 THEN a ELSE b]

\* values src.Int63() may return: every digit a letter index, every digit
\* out of range, and mixtures of both
Int63Values ==
    {Int63Of(0, 0), Int63Of(61, 35), Int63Of(62, 62), Int63Of(63, 63),
     Int63Of(63, 9), Int63Of(10, 62)}

\* task t enters RandStringBytesMaskImprSrc(n): b := make([]byte, n),
\* i := n-1, and the loop's init statement calls src.Int63()
RandStart(t, n) ==
    /\ rPc[t] \in {"idle", "returned"}
    /\ rN' = [rN EXCEPT ![t] = n]
    /\ rB' = [rB EXCEPT ![t] = [j \in 1..n |-> 0]]
    /\ rI' = [rI EXCEPT ![t] = n - 1]
    /\ rPc' = [rPc EXCEPT ![t] = "Int63"]
    /\ rDraws' = [rDraws EXCEPT ![t] = 0]
    /\ rTaken' = [rTaken EXCEPT ![t] = 0]
    /\ UNCHANGED <<rCache, rRemain>>
    /\ UNCHANGED <<dvars, evars, svars, ovars, mvars>>

\* src.Int63() returns d to task t: cache, remain = d, letterIdxMax
Int63Return(t, d) ==
    /\ rPc[t] = "Int63"
    /\ rCache' = [rCache EXCEPT ![t] = d]
    /\ rRemain' = [rRemain EXCEPT ![t] = letterIdxMax]
    /\ rDraws' = [rDraws EXCEPT ![t] = @ + 1]
    /\ rTaken' = [rTaken EXCEPT ![t] = 0]
    /\ rPc' = [rPc EXCEPT ![t] = "loop"]
    /\ UNCHANGED <<rN, rI, rB>>
    /\ UNCHANGED <<dvars, evars, svars, ovars, mvars>>

\* src is a rand.NewSource value, which is not safe for concurrent use, and
\* no lock guards it: with another task inside src.Int63 the call of task t
\* may index its state out of range, and the panic ends the process
Int63Panic(t) ==
    /\ rPc[t] = "Int63"
    /\ \E u \in Tasks \ {t} : rPc[u] = "Int63"
    /\ rPc' = [u \in Tasks |-> "panicked"]
    /\ UNCHANGED <<rN, rI, rCache, rRemain, rB, rDraws, rTaken>>
    /\ UNCHANGED <<dvars, evars, svars, ovars, mvars>>

\* a loop body that moves to the next position when it discards an index
RandIterSkipsPosition(t) ==
    /\ rPc[t] = "loop"
    /\ rI[t] >= 0
    /\ IF rRemain[t] = 0
         THEN /\ rDraws[t] < MaxDraws
              /\ rPc' = [rPc EXCEPT ![t] = "Int63"]
              /\ UNCHANGED <<rI, rCache, rRemain, rB, rTaken>>
         ELSE LET idx == rCache[t][1]
              IN  /\ rB' = IF idx < Len(letterBytes)
                             THEN [rB EXCEPT ![t][rI[t] + 1] = letterBytes[idx + 1]]
                             ELSE rB
                  /\ rI' = [rI EXCEPT ![t] = @ - 1]
                  /\ rCache' = [rCache EXCEPT ![t] = Tail(@) \o <<0>>]
                  /\ rRemain' = [rRemain EXCEPT ![t] = @ - 1]
                  /\ rTaken' = [rTaken EXCEPT ![t] = @ + 1]
                  /\ rPc' = rPc
    /\ UNCHANGED <<rN, rDraws>>
    /\ UNCHANGED <<dvars, evars, svars, ovars, mvars>>

\* one pass of the loop body with i >= 0: with remain = 0 it calls
\* src.Int63(); otherwise it takes cache & letterIdxMask, stores
\* letterBytes[idx] in b[i] and decrements i if idx < len(letterBytes),
\* then shifts cache and decrements remain
RandIter(t) ==
    /\ rPc[t] = "loop"
    /\ rI[t] >= 0
    /\ IF rRemain[t] = 0
         THEN /\ rDraws[t] < MaxDraws
              /\ rPc' = [rPc EXCEPT ![t] = "Int63"]
              /\ UNCHANGED <<rI, rCache, rRemain, rB, rTaken>>
         ELSE LET idx == rCache[t][1]
              IN  /\ IF idx < Len(letterBytes)
                       THEN /\ rB' = [rB EXCEPT ![t][rI[t] + 1] = letterBytes[idx + 1]]
                            /\ rI' = [rI EXCEPT ![t] = @ - 1]
                       ELSE UNCHANGED <<rB, rI>>
                  /\ rCache' = [rCache EXCEPT ![t] = Tail(@) \o <<0>>]
                  /\ rRemain' = [rRemain EXCEPT ![t] = @ - 1]
                  /\ rTaken' = [rTaken EXCEPT ![t] = @ + 1]
                  /\ rPc' = rPc
    /\ UNCHANGED <<rN, rDraws>>
    /\ UNCHANGED <<dvars, evars, svars, ovars, mvars>>

\* the loop ends with i < 0: return string(b)
RandReturn(t) ==
    /\ rPc[t] = "loop"
    /\ rI[t] < 0
    /\ rPc' = [rPc EXCEPT ![t] = "returned"]
    /\ UNCHANGED <<rN, rI, rCache, rRemain, rB, rDraws, rTaken>>
    /\ UNCHANGED <<dvars, evars, svars, ovars, mvars>>

\* one caller
RandNext ==
    \/ \E n \in 0..MaxLen : RandStart(1, n)
    \/ \E d \in Int63Values : Int63Return(1, d)
    \/ RandIter(1)
    \/ RandReturn(1)

RandSpec == Init /\ [][RandNext]_vars

\* concurrent callers of wxService.RandString
RaceNext ==
    \/ \E t \in Tasks, n \in 0..1 : RandStart(t, n)
    \/ \E t \in Tasks, d \in {Int63Of(0, 0), Int63Of(63, 63)} : Int63Return(t, d)
    \/ \E t \in Tasks : Int63Panic(t)
    \/ \E t \in Tasks : RandIter(t)
    \/ \E t \in Tasks : RandReturn(t)

RaceSpec == Init /\ [][RaceNext]_vars

-----------------------------------------------------------------------------
(* wxService.DoReq called directly, and the wxMini operations *)

ErrTokenMissing == "token missing"

\* a []byte value
Bytes(bs) == [type |-> "[]byte", val |-> bs]

\* DoReq(ctx, method, url, contentType, req, f) up to the point where the
\* caller blocks inside ctxHttp.do; ctx0 is ctx.Err() at that time
DoReqCall(ctx0, url, contentType, req, h) ==
    /\ doReqArgs' = [called |-> TRUE, url |-> url, contentType |-> contentType, req |-> req]
    /\ DoCall(ctx0, TRUE, DoReqBody(contentType, req).body, h)

\* a caller in the package calls w.DoReq
DoReq(ctx0, contentType, req, h) ==
    /\ opPc = "idle"
    /\ DoReqCall(ctx0, NoUrl, contentType, req, h)
    /\ UNCHANGED <<token, evars, svars, ovars, rvars>>

\* the (contentType, req) pairs a direct caller passes: structs to marshal
\* as XML or JSON, and, under other content types, a []byte, a struct, a
\* string and nil
DoReqInputs ==
    ({contentTypeXML, contentTypeJSON} \X {MchPay1, Refund1})
        \cup ({"", "text/plain"} \X {Bytes(V_T1), Bytes(EmptyStr), MchPay1,
                                     [type |-> "string", val |-> V_T1], NoObj})

DoReqNext ==
    \/ \E ctx0 \in {NoErr} \cup CtxErrs, in \in DoReqInputs, h \in Handlers :
          DoReq(ctx0, in[1], in[2], h)
    \/ \E e \in CtxErrs : CtxFire(e)
    \/ Goroutine
    \/ ChanRendezvous

DoReqSpec == Init /\ [][DoReqNext]_vars

\* w.SetAccessToken(tok)
SetAccessToken(tok) ==
    /\ opPc = "idle"
    /\ token' = tok
    /\ UNCHANGED <<doReqArgs, dvars, evars, svars, ovars, rvars>>

\* ReqCode2Session and ReqAccessToken: w.Get(ctx, url, f), the URL built
\* from the configuration only
MiniGet(op) ==
    /\ opPc = "idle"
    /\ opPc' = op
    /\ \E ctx0 \in {NoErr} \cup CtxErrs :
          DoReqCall(ctx0, [base |-> op, hasToken |-> FALSE, access_token |-> EmptyStr],
                    "", NoObj, "propagate")
    /\ UNCHANGED <<token, opEntry, opRet, evars, svars, rvars>>

\* an operation that posts without looking at the token
MiniPostUngated(op, contentType, req) ==
    /\ opPc = "idle"
    /\ callerPc \in {"idle", "returned"}
    /\ dispatches < MaxDispatches
    /\ opPc' = op
    /\ opRet' = opRet
    /\ \E ctx0 \in {NoErr} \cup CtxErrs :
          DoReqCall(ctx0, [base |-> op, hasToken |-> TRUE, access_token |-> token],
                    contentType, req, "propagate")
    /\ UNCHANGED <<token, opEntry, evars, svars, rvars>>

\* SendSubscribeMessage, ReqWxCodeUnlimited, CheckImage and CheckMessage:
\* checkToken returns ErrTokenMissing for an empty w.token and the operation
\* returns (nil, err); otherwise the URL gets access_token=w.token and the
\* request is posted
MiniPost(op, contentType, req) ==
    /\ opPc = "idle"
    /\ callerPc \in {"idle", "returned"}
    /\ dispatches < MaxDispatches
    /\ IF token = EmptyStr
         THEN /\ opRet' = [op |-> op, ok |-> FALSE, err |-> ErrTokenMissing]
              /\ UNCHANGED <<opPc, doReqArgs, dvars>>
         ELSE /\ opPc' = op
              /\ opRet' = opRet
              /\ \E ctx0 \in {NoErr} \cup CtxErrs :
                    DoReqCall(ctx0, [base |-> op, hasToken |-> TRUE, access_token |-> token],
                              contentType, req, "propagate")
    /\ UNCHANGED <<token, opEntry, evars, svars, rvars>>

\* the body CheckImage builds: a multipart field "media" holding the bytes
MultipartMedia(media) == <<109, 101, 100, 105, 97, 13, 10, 13, 10>> \o media

GatedOps == {"SendSubscribeMessage", "ReqWxCodeUnlimited", "CheckImage", "CheckMessage"}

MiniNext ==
    \/ \E tok \in {EmptyStr, V_T1, V_wx1} : SetAccessToken(tok)
    \/ \E op \in {"ReqCode2Session", "ReqAccessToken"} : MiniGet(op)
    \/ MiniPost("SendSubscribeMessage", contentTypeJSON,
                With(ZeroValue("SubscribeMessageReq"), <<116, 111, 117, 115, 101, 114>>, V_wx1))
    \/ MiniPost("ReqWxCodeUnlimited", contentTypeJSON,
                With(ZeroValue("WxCodeUnlimitedReq"), <<115, 99, 101, 110, 101>>, V_T1))
    \/ \E media \in {EmptyStr, V_T1} :
          MiniPost("CheckImage", "multipart/form-data", Bytes(MultipartMedia(media)))
    \/ \E msg \in {EmptyStr, V_special} :
          MiniPost("CheckMessage", contentTypeJSON,
                   With(ZeroValue("map[string]string"), <<99, 111, 110, 116, 101, 110, 116>>, msg))
    \/ ReqReturn
    \/ \E e \in CtxErrs : CtxFire(e)
    \/ Goroutine
    \/ ChanRendezvous

MiniSpec == Init /\ [][MiniNext]_vars

-----------------------------------------------------------------------------
(* Properties *)

\* a precedes b in ascending lexicographic (byte) order
LexLess(a, b) ==
    \E i \in 1..Len(b) :
        /\ Len(a) >= i - 1
        /\ \A j \in 1..(i - 1) : a[j] = b[j]
        /\ (Len(a) = i - 1 \/ a[i] < b[i])

NonEmptyKeys(ps) == {k \in DOMAIN ps : ps[k] # EmptyStr}

\* the keys of S listed in ascending order
AscendingKeys(S) ==
    CHOOSE s \in [1..Cardinality(S) -> S] :
        \A i, j \in 1..Cardinality(S) : i < j => LexLess(s[i], s[j])

RawJoin(ps, ks) ==
    Flatten([i \in 1..Len(ks) |->
                (IF i > 1 THEN <<38>> ELSE <<>>) \o ks[i] \o <<61>> \o ps[ks[i]]],
            1, Len(ks))

\* key=value joined by '&' over the non-empty entries, keys ascending,
\* values as they are
Canonical(ps) == RawJoin(ps, AscendingKeys(NonEmptyKeys(ps)))

\* "appid=wx123&mch_id=1900&out_trade_no=ORDER1"
ScenarioStr ==
    <<97, 112, 112, 105, 100, 61, 119, 120, 49, 50, 51, 38, 109, 99, 104, 95,
      105, 100, 61, 49, 57, 48, 48, 38, 111, 117, 116, 95, 116, 114, 97, 100,
      101, 95, 110, 111, 61, 79, 82, 68, 69, 82, 49>>

\* the fields of a request object under their JSON names, numbers in decimal
FlatFields(o) ==
    LET fs == StructFields(o.type)
    IN  [n \in FieldNames(o.type) |->
            LET i == CHOOSE j \in 1..Len(fs) : fs[j].json = n
            IN  IF fs[i].go = "string" THEN o.val[n] ELSE FormatInt(o.val[n])]

\* 32 upper-case hexadecimal digits for 16 bytes
UpperHex(bs) ==
    [i \in 1..(2 * Len(bs)) |->
        LET b == bs[(i + 1) \div 2]
            n == IF i % 2 = 1 THEN b \div 16 ELSE b % 16
        IN  IF n < 10 THEN 48 + n ELSE 65 + (n - 10)]

\* the string the remote side hashes for object o and secret k
SignedString(o, k) == Canonical(FlatFields(o)) \o AmpKeyEq \o k

\* the signature of o with its sign field empty
ExpectedSig(o, k) == UpperHex(Md5Sum(SignedString(With(o, F_sign, EmptyStr), k)))

\* every field of o is a string, or a number written as a string
IsFlatObject(o) ==
    \A i \in 1..Len(StructFields(o.type)) :
        StructFields(o.type)[i].go \in {"string", "int64,string"}

\* MD5("&key=k1") = 05E1E698C5D7830E33D662296C589B4E
Md5OfAmpKeyK1 ==
    <<48, 53, 69, 49, 69, 54, 57, 56, 67, 53, 68, 55, 56, 51, 48, 69, 51, 51,
      68, 54, 54, 50, 50, 57, 54, 67, 53, 56, 57, 66, 52, 69>>

\* C1: when the context fires while h.client.Do is running, the handler is
\* never invoked for that dispatch and Do returns ctx.Err()
C1_CancellationPrecedence ==
    firedInFlight =>
        /\ fArgs = <<>>
        /\ callerPc = "returned" => result = ctxErr

\* C2: in one dispatch the handler is invoked at most once, only after
\* h.client.Do has returned on the default branch of the select, and never
\* when http.NewRequest failed or the goroutine took the ctx.Done branch
C2_HandlerAtMostOnce ==
    /\ Len(fArgs) <= 1
    /\ fArgs # <<>> =>
          /\ netOut # <<>>
          /\ gBranch = "default"
          /\ gPc \in {"handler", "send", "exited"}
    /\ gBranch = "ctx.Done" => fArgs = <<>>
    /\ result = ErrNewRequest => (fArgs = <<>> /\ gPc = "none")

C2_Witness ==
    /\ callerPc = "returned"
    /\ Len(fArgs) = 1
    /\ ctxErr # NoErr

\* C3: what h.client.Do returned, response or transport error, is handed to
\* the handler unchanged, and Do returns exactly what the handler returned
C3_HandlerDecides ==
    /\ fArgs # <<>> => fArgs = <<netOut>>
    /\ (callerPc = "returned" /\ gBranch = "default") =>
          /\ fArgs = <<netOut>>
          /\ result = fRet
          /\ (f = "swallow" /\ netOut[2] # NoErr) => result = NoErr
          /\ (f = "propagate" /\ netOut[2] # NoErr) => result = netOut[2]

C3_Witness ==
    /\ callerPc = "returned"
    /\ f = "swallow"
    /\ netOut = <<NoResponse, ErrTransport>>
    /\ fArgs = <<netOut>>
    /\ result = NoErr

\* C4: every call of Do that blocks on the completion channel eventually
\* returns, also when the transport or the handler panics
C4_DispatchReturns == (callerPc = "blocked") ~> (callerPc = "returned")

\* C5: the goroutine is never leaked: whenever it is at its send a receiver
\* is waiting, and once h.client.Do has returned it eventually exits
C5_NoGoroutineLeak ==
    /\ [](gPc = "send" => callerPc = "blocked")
    /\ (gPc \in {"handler", "send"}) ~> (gPc = "exited")

C5_Witness ==
    /\ gPc = "exited"
    /\ callerPc = "returned"
    /\ gBranch = "default"
    /\ netOut # <<>>
    /\ ctxErr # NoErr

\* C6: GenParamStr returns no error and the '&'-join of key=value over the
\* non-empty entries in ascending key order, values unescaped; an empty or
\* all-empty map gives ""; the scenario map gives the scenario string
C6_CanonicalString ==
    encOut.called =>
        /\ encOut.err = NoErr
        /\ encOut.str = Canonical(params)
        /\ NonEmptyKeys(params) = {} => encOut.str = EmptyStr
        /\ DOMAIN params = DOMAIN ScenarioMap => encOut.str = ScenarioStr

C6_Witness ==
    /\ encOut.called
    /\ DOMAIN params = DOMAIN ScenarioMap
    /\ encOut.str = ScenarioStr

\* C7: sign returns the upper-case hex MD5 of canonical + "&key=" + secret,
\* always 32 characters of 0-9A-F; with every field empty the hashed string
\* is "&key=" + secret
C7_SignatureValue ==
    (signOut.called /\ IsFlatObject(signOut.req)) =>
        /\ signOut.out.err = NoErr
        /\ signOut.out.signed = SignedString(signOut.req, key)
        /\ signOut.out.sign = UpperHex(Md5Sum(signOut.out.signed))
        /\ Len(signOut.out.sign) = 32
        /\ \A i \in 1..Len(signOut.out.sign) :
              signOut.out.sign[i] \in (48..57) \cup (65..70)
        /\ NonEmptyKeys(FlatFields(signOut.req)) = {} =>
              signOut.out.signed = AmpKeyEq \o key
        /\ signOut.out.signed = AmpKeyEq \o Key1 => signOut.out.sign = Md5OfAmpKeyK1

C7_Witness ==
    /\ signOut.called
    /\ signOut.req = Notify0
    /\ key = Key1
    /\ signOut.out.sign = Md5OfAmpKeyK1

\* C8: VerifySign returns true exactly when the record's Sign equals the
\* signature of the record with Sign empty
C8_VerifyRoundTrip ==
    \A i \in 1..Len(verifyLog) :
        verifyLog[i].ret =
            (verifyLog[i].entry.val[F_sign] = ExpectedSig(verifyLog[i].entry, key))

C8_Witness ==
    \E i \in 1..Len(verifyLog) :
        /\ verifyLog[i].ret
        /\ Len(verifyLog[i].entry.val[F_sign]) = 32

\* the text of element n of a marshaled body
BodyField(body, n) ==
    body.doc[CHOOSE i \in 1..Len(body.doc) : body.doc[i][1] = n][2]

C10_SignRestored ==
    \A i \in 1..Len(verifyLog) : verifyLog[i].exit = verifyLog[i].entry


\* C11: RandStringBytesMaskImprSrc returns exactly n characters of 0-9a-zA-Z;
\* an index of 62 or 63 fills no position, at most 10 indices are taken from
\* one draw, and a new value is drawn exactly when the 10 are used up
C11_RandString ==
    /\ [](\A t \in Tasks :
            /\ rTaken[t] <= 10
            /\ rPc[t] = "loop" => rTaken[t] + rRemain[t] = 10
            /\ (rPc[t] = "Int63" /\ rDraws[t] > 0) => (rTaken[t] = 10 /\ rI[t] >= 0)
            /\ rPc[t] = "returned" =>
                  /\ Len(rB[t]) = rN[t]
                  /\ \A j \in 1..Len(rB[t]) :
                        rB[t][j] \in (48..57) \cup (97..122) \cup (65..90))
    /\ [][\A t \in Tasks :
            (rPc[t] = "loop" /\ rTaken'[t] = rTaken[t] + 1 /\ rCache[t][1] >= 62)
                => (rB'[t] = rB[t] /\ rI'[t] = rI[t])]_vars

C11_Witness ==
    /\ rPc[1] = "returned"
    /\ rN[1] = 11
    /\ rDraws[1] = 2
    /\ Len(rB[1]) = 11

\* C12: no two tasks are inside src.Int63 at the same time
C12_SrcSerialized ==
    \A t, u \in Tasks : (t # u /\ rPc[t] = "Int63") => rPc[u] # "Int63"

\* C13: DoReq sends the XML or JSON marshaling of req by content type, a
\* []byte unmodified under any other content type, sets the Content-Type
\* header to a non-empty contentType, and never sends a request without the
\* body its caller supplied
C13_BodyByContentType ==
    (doReqArgs.called /\ callerPc = "blocked") =>
        /\ doReqArgs.contentType = contentTypeXML =>
              (~reqBody.nil /\ reqBody.doc = XmlMarshal(doReqArgs.req))
        /\ doReqArgs.contentType = contentTypeJSON =>
              (~reqBody.nil /\ reqBody.doc = JsonMarshal(doReqArgs.req))
        /\ (doReqArgs.contentType \notin {contentTypeXML, contentTypeJSON}
              /\ doReqArgs.req.type = "[]byte") =>
              (~reqBody.nil /\ reqBody.doc = doReqArgs.req.val)
        /\ reqBody.contentType = doReqArgs.contentType
        /\ doReqArgs.req # NoObj => ~reqBody.nil

\* C14: when the context fires while f is running, f still returns and Do
\* returns what f returned, not the context's error
C14_HandlerNotInterrupted ==
    firedInHandler =>
        /\ gBranch = "default"
        /\ fArgs = <<netOut>>
        /\ callerPc = "returned" =>
              /\ result = fRet
              /\ result \notin CtxErrs
              /\ gPc = "exited"

C14_Witness ==
    /\ firedInHandler
    /\ callerPc = "returned"
    /\ ctxErr = ErrCanceled
    /\ result = NoErr

\* C15: the object a payment operation hands to the dispatcher carries in
\* its sign field the signature the signer computed for the request
C15_SignThenDispatch ==
    (opPc # "idle" /\ callerPc = "blocked") =>
        BodyField(reqBody, F_sign) = UpperHex(Md5Sum(SignedString(opEntry, key)))

C17_CancelledBeforeStart ==
    /\ [][(gPc = "select" /\ ctxErr # NoErr /\ gPc' # "select") =>
            /\ gPc' = "send"
            /\ sendVal' = ctxErr
            /\ fArgs' = <<>>
            /\ netOut' = <<>>
            /\ wire' = wire]_vars
    /\ [](gBranch = "ctx.Done" =>
            /\ fArgs = <<>>
            /\ netOut = <<>>
            /\ callerPc = "returned" => (result = ctxErr /\ result \in CtxErrs))

C17_Witness ==
    /\ gBranch = "ctx.Done"
    /\ callerPc = "returned"
    /\ result = ErrDeadline
    /\ wire = <<>>

NonEmptyPairs(ps) == {<<k, ps[k]>> : k \in NonEmptyKeys(ps)}

\* C19: two maps that differ in their non-empty key/value pairs never get
\* the same string from GenParamStr
C19_CanonicalInjective ==
    encOut.called =>
        \A q \in ParamMaps :
            NonEmptyPairs(q) # NonEmptyPairs(params) =>
                \A order \in RangeOrders(DOMAIN q) : GenParamStr(q, order).str # encOut.str

====
